---- MODULE Spec2Model ----
(***************************************************************************)
(* A model of visualize_desk.py: one run of the batch pipeline             *)
(*   main -> load_data -> calculate_durations -> aggregate_by_day          *)
(*        -> create_visualization -> fig.savefig -> plt.show               *)
(* Timestamps are whole minutes since midnight of day 0; a calendar date   *)
(* is the day number.  Durations are minutes, as in the source.            *)
(***************************************************************************)
EXTENDS Integers, Sequences, FiniteSets

(* ------------------------------ bounds -------------------------------- *)

\* The longest CSV file (number of data rows) the model reads.  Four rows
\* are the fewest that put intervals on two different days.
MaxLen == 4

(* ------------------------- program constants -------------------------- *)

STANDING_THRESHOLD == 900

MAX_GAP_MINUTES == 60

(* ----------------------------- the input ------------------------------ *)

\* A CSV field as the DictReader hands it over: parseable text ("ok", with
\* the value it parses to), text that does not parse ("garbled"), or None
\* for a row shorter than the header ("missing").
Ok(v) == [kind |-> "ok", val |-> v]
Garbled == [kind |-> "garbled", val |-> 0]
Missing == [kind |-> "missing", val |-> 0]

Row(ts, h) == [timestamp |-> ts, height_mm |-> h]

\* The well-formed rows a file may hold, <<timestamp, height>>.  Day 0 has
\* T0, T0+10m and T0+70m (gaps below, at and above the cap, and zero or
\* negative gaps when repeated or out of order), day 1 has two timestamps
\* and day 2 one (a multi-day gap from day 0).  The heights are the
\* threshold, the value just below it, and one well below and well above.
WellFormed ==
    {<<0, 850>>, <<0, 900>>, <<10, 950>>, <<10, 899>>, <<70, 850>>,
     <<70, 900>>, <<1440, 900>>, <<1450, 899>>, <<2880, 850>>}

\* The malformed rows: each field that load_data parses can fail, and
\* when both would fail the timestamp is parsed first.
Malformed ==
    {Row(Garbled, Ok(900)), Row(Missing, Ok(900)), Row(Ok(0), Garbled),
     Row(Ok(0), Missing), Row(Garbled, Garbled)}

Rows == {Row(Ok(r[1]), Ok(r[2])) : r \in WellFormed} \cup Malformed

VARIABLES
    path_exists,   \* csv_path.exists()
    pc,            \* the function main is in, or "exited"
    data,          \* load_data's list of samples, then main's data
    durations,     \* calculate_durations' list of intervals, then main's
    i,             \* the index of the loop that is running (0-based)
    daily,         \* aggregate_by_day's mapping date -> totals and entries
    stdout,        \* what was printed to standard output, in order
    stderr,        \* what was printed to standard error, in order
    exc,           \* <<>> or <<e>>: the exception that left main()
    image_writes,  \* number of fig.savefig calls that completed
    exit_code      \* <<>> while the process runs, then <<status>>

vars == <<path_exists, pc, data, durations, i, daily, stdout, stderr, exc,
          image_writes, exit_code>>

(* ------------------------------ helpers ------------------------------- *)

\* datetime.date(): the calendar date of a timestamp.
date(ts) == ts \div 1440

\* The threshold compared with > in place of >=.
is_standing_strict(height) == height > STANDING_THRESHOLD

\* is_standing = height >= STANDING_THRESHOLD
is_standing(height) == height >= STANDING_THRESHOLD

\* The same-day test replaced by "less than a day apart".
same_day_by_gap(current, next_entry) ==
    next_entry.timestamp - current.timestamp < 1440

\* current["timestamp"].date() == next_entry["timestamp"].date()
same_day(current, next_entry) ==
    date(current.timestamp) = date(next_entry.timestamp)

\* The cap left out.
capped_not(duration) == duration

\* duration = min(duration, 60)
capped(duration) ==
    IF duration < MAX_GAP_MINUTES THEN duration ELSE MAX_GAP_MINUTES

\* The state and height taken from next_entry in place of current.
interval_of_next(current, next_entry) ==
    [start        |-> current.timestamp,
     end          |-> next_entry.timestamp,
     duration_min |-> capped(next_entry.timestamp - current.timestamp),
     is_standing  |-> next_entry.is_standing,
     height       |-> next_entry.height]

\* The dictionary appended to durations for a same-day pair.
interval(current, next_entry) ==
    [start        |-> current.timestamp,
     end          |-> next_entry.timestamp,
     duration_min |-> capped(next_entry.timestamp - current.timestamp),
     is_standing  |-> current.is_standing,
     height       |-> current.height]

\* defaultdict(lambda: {"standing": 0, "sitting": 0, "entries": []})
EmptyDaily == [day \in {} |-> [standing |-> 0, sitting |-> 0, entries |-> <<>>]]

\* daily[day]: the stored value, or the factory's fresh one.
lookup(m, day) ==
    IF day \in DOMAIN m THEN m[day]
    ELSE [standing |-> 0, sitting |-> 0, entries |-> <<>>]

\* The key taken as d["start"], without .date().
fold_by_timestamp(m, d) ==
    LET day == d.start
        old == lookup(m, day)
        new == [standing |-> IF d.is_standing
                             THEN old.standing + d.duration_min
                             ELSE old.standing,
                sitting  |-> IF d.is_standing
                             THEN old.sitting
                             ELSE old.sitting + d.duration_min,
                entries  |-> Append(old.entries, d)]
    IN  [k \in DOMAIN m \cup {day} |-> IF k = day THEN new ELSE m[k]]

\* The two branches of the if swapped.
fold_swapped(m, d) ==
    LET day == date(d.start)
        old == lookup(m, day)
        new == [standing |-> IF d.is_standing
                             THEN old.standing
                             ELSE old.standing + d.duration_min,
                sitting  |-> IF d.is_standing
                             THEN old.sitting + d.duration_min
                             ELSE old.sitting,
                entries  |-> Append(old.entries, d)]
    IN  [k \in DOMAIN m \cup {day} |-> IF k = day THEN new ELSE m[k]]

\* One iteration of aggregate_by_day's loop: the mapping after folding d in.
fold(m, d) ==
    LET day == date(d.start)
        old == lookup(m, day)
        new == [standing |-> IF d.is_standing
                             THEN old.standing + d.duration_min
                             ELSE old.standing,
                sitting  |-> IF d.is_standing
                             THEN old.sitting
                             ELSE old.sitting + d.duration_min,
                entries  |-> Append(old.entries, d)]
    IN  [k \in DOMAIN m \cup {day} |-> IF k = day THEN new ELSE m[k]]

\* sorted(daily_stats.keys())
RECURSIVE sorted(_)
sorted(S) ==
    IF S = {} THEN <<>>
    ELSE LET least == CHOOSE x \in S : \A y \in S : x <= y
         IN  <<least>> \o sorted(S \ {least})

\* sum(xs) for a list of numbers.
RECURSIVE sum(_)
sum(xs) == IF xs = <<>> THEN 0 ELSE Head(xs) + sum(Tail(xs))

(* ------------------------------ actions ------------------------------- *)

Init ==
    /\ path_exists \in BOOLEAN
    /\ pc = "main"
    /\ data = <<>>
    /\ durations = <<>>
    /\ i = 0
    /\ daily = EmptyDaily
    /\ stdout = <<>>
    /\ stderr = <<>>
    /\ exc = <<>>
    /\ image_writes = 0
    /\ exit_code = <<>>

\* The exception caught by a blanket handler that reports it and lets the
\* process end normally.
uncaught_swallowed(type, line) ==
    /\ exc' = <<[type |-> type, line |-> line]>>
    /\ stderr' = Append(stderr, "Traceback")
    /\ exit_code' = <<0>>
    /\ pc' = "exited"

\* An exception nobody catches leaves main(): the interpreter prints the
\* traceback to stderr and the process ends with status 1.
uncaught(type, line) ==
    /\ exc' = <<[type |-> type, line |-> line]>>
    /\ stderr' = Append(stderr, "Traceback")
    /\ exit_code' = <<1>>
    /\ pc' = "exited"

\* The check without its sys.exit(1): the error is printed and main goes on.
main_check_path_no_exit ==
    /\ pc = "main"
    /\ IF ~path_exists
       THEN /\ stderr' = Append(stderr, "Error: File not found")
            /\ stdout' = Append(stdout, "Loading data")
            /\ pc' = "load_data"
            /\ UNCHANGED exit_code
       ELSE /\ stdout' = Append(stdout, "Loading data")
            /\ pc' = "load_data"
            /\ UNCHANGED <<stderr, exit_code>>
    /\ UNCHANGED <<path_exists, data, durations, i, daily, exc, image_writes>>

\* main, up to the call of load_data.
main_check_path ==
    /\ pc = "main"
    /\ IF ~path_exists
       THEN /\ stderr' = Append(stderr, "Error: File not found")
            /\ exit_code' = <<1>>
            /\ pc' = "exited"
            /\ UNCHANGED stdout
       ELSE /\ stdout' = Append(stdout, "Loading data")
            /\ pc' = "load_data"
            /\ UNCHANGED <<stderr, exit_code>>
    /\ UNCHANGED <<path_exists, data, durations, i, daily, exc, image_writes>>

\* load_data: one iteration of `for row in reader`.
load_row(row) ==
    /\ pc = "load_data"
    /\ Len(data) < MaxLen
    /\ IF row.timestamp.kind # "ok"
       THEN /\ uncaught(IF row.timestamp.kind = "garbled"
                        THEN "ValueError" ELSE "TypeError", 45)
            /\ UNCHANGED data
       ELSE IF row.height_mm.kind # "ok"
       THEN /\ uncaught(IF row.height_mm.kind = "garbled"
                        THEN "ValueError" ELSE "TypeError", 46)
            /\ UNCHANGED data
       ELSE /\ data' = Append(data,
                  [timestamp   |-> row.timestamp.val,
                   height      |-> row.height_mm.val,
                   is_standing |-> is_standing(row.height_mm.val)])
            /\ UNCHANGED <<pc, exc, stderr, exit_code>>
    /\ UNCHANGED <<path_exists, durations, i, daily, stdout, image_writes>>

\* load_data: the reader is exhausted; return data to main, which prints
\* the record count and calls calculate_durations.
load_return ==
    /\ pc = "load_data"
    /\ stdout' = Append(stdout, "Loaded records")
    /\ pc' = "calculate_durations"
    /\ i' = 0
    /\ UNCHANGED <<path_exists, data, durations, daily, stderr, exc,
                   image_writes, exit_code>>

\* calculate_durations: one iteration of `for i in range(len(data) - 1)`.
calculate_step ==
    /\ pc = "calculate_durations"
    /\ i < Len(data) - 1
    /\ LET current    == data[i + 1]
           next_entry == data[i + 2]
       IN  durations' = IF same_day(current, next_entry)
                        THEN Append(durations, interval(current, next_entry))
                        ELSE durations
    /\ i' = i + 1
    /\ UNCHANGED <<path_exists, pc, data, daily, stdout, stderr, exc,
                   image_writes, exit_code>>

\* calculate_durations returns; main calls aggregate_by_day.
calculate_return ==
    /\ pc = "calculate_durations"
    /\ ~(i < Len(data) - 1)
    /\ pc' = "aggregate_by_day"
    /\ i' = 0
    /\ UNCHANGED <<path_exists, data, durations, daily, stdout, stderr, exc,
                   image_writes, exit_code>>

\* aggregate_by_day: one iteration of `for d in durations`.
aggregate_step ==
    /\ pc = "aggregate_by_day"
    /\ i < Len(durations)
    /\ daily' = fold(daily, durations[i + 1])
    /\ i' = i + 1
    /\ UNCHANGED <<path_exists, pc, data, durations, stdout, stderr, exc,
                   image_writes, exit_code>>

\* aggregate_by_day returns; main calls create_visualization.
aggregate_return ==
    /\ pc = "aggregate_by_day"
    /\ ~(i < Len(durations))
    /\ pc' = "create_visualization"
    /\ UNCHANGED <<path_exists, data, durations, i, daily, stdout, stderr,
                   exc, image_writes, exit_code>>

\* What create_visualization computes before it prints.
days == sorted(DOMAIN daily)
standing_mins == [k \in 1..Len(days) |-> daily[days[k]].standing]
sitting_mins == [k \in 1..Len(days) |-> daily[days[k]].sitting]
total_standing == sum(standing_mins)
total_sitting == sum(sitting_mins)
total_time == total_standing + total_sitting

\* create_visualization: the charts (which change nothing the run keeps)
\* and the printed summary.
create_visualization ==
    /\ pc = "create_visualization"
    /\ IF days = <<>>
       THEN \* min(days) of an empty list
            /\ stdout' = stdout \o <<"Summary header">>
            /\ uncaught("ValueError", 218)
       ELSE IF total_time = 0
       THEN \* 100 * total_standing / total_time
            /\ stdout' = stdout \o <<"Summary header", "Date range",
                                     "Total days", "Total standing",
                                     "Total sitting">>
            /\ uncaught("ZeroDivisionError", 226)
       ELSE /\ stdout' = stdout \o <<"Summary header", "Date range",
                                     "Total days", "Total standing",
                                     "Total sitting", "Standing percentage",
                                     "Sitting percentage", "Average per day",
                                     "Summary footer">>
            /\ pc' = "savefig"
            /\ UNCHANGED <<stderr, exc, exit_code>>
    /\ UNCHANGED <<path_exists, data, durations, i, daily, image_writes>>

\* fig.savefig(output_file) and the message after it.
savefig ==
    /\ pc = "savefig"
    /\ image_writes' = image_writes + 1
    /\ stdout' = Append(stdout, "Visualization saved")
    /\ pc' = "show"
    /\ UNCHANGED <<path_exists, data, durations, i, daily, stderr, exc,
                   exit_code>>

\* plt.show(), then main returns and the process ends with status 0.
show ==
    /\ pc = "show"
    /\ pc' = "exited"
    /\ exit_code' = <<0>>
    /\ UNCHANGED <<path_exists, data, durations, i, daily, stdout, stderr,
                   exc, image_writes>>

Next ==
    \/ main_check_path
    \/ \E row \in Rows : load_row(row)
    \/ load_return
    \/ calculate_step
    \/ calculate_return
    \/ aggregate_step
    \/ aggregate_return
    \/ create_visualization
    \/ savefig
    \/ show

Spec == Init /\ [][Next]_vars

(* ------------------- what the properties talk about ------------------- *)

\* load_data raised: main never received a sample list.
LoadFailed == exc # <<>> /\ exc[1].line \in {45, 46}

\* The number of adjacent pairs (data[p], data[p+1]) calculate_durations
\* has handled so far.
Processed ==
    IF pc \in {"main", "load_data"} \/ LoadFailed \/ Len(data) = 0 THEN 0
    ELSE IF pc = "calculate_durations" THEN i
    ELSE Len(data) - 1

\* calculate_durations has returned.
Derived ==
    pc \notin {"main", "load_data", "calculate_durations"} /\ path_exists
        /\ ~LoadFailed

\* Pair p is (data[p], data[p+1]); its two samples are on one calendar date.
OnOneDate(p) == data[p].timestamp \div 1440 = data[p + 1].timestamp \div 1440

Elapsed(p) == data[p + 1].timestamp - data[p].timestamp

\* The same-date pairs among the first n pairs, in input order.
RECURSIVE PairSeq(_)
PairSeq(n) ==
    IF n <= 0 THEN <<>>
    ELSE PairSeq(n - 1) \o (IF OnOneDate(n) THEN <<n>> ELSE <<>>)

NonDecreasing ==
    \A p \in 1..(Len(data) - 1) : data[p].timestamp <= data[p + 1].timestamp

\* <<timestamp, height>> of every sample, in order.
Readings == [k \in 1..Len(data) |-> <<data[k].timestamp, data[k].height>>]

(* ----------------------------- properties ----------------------------- *)

\* C1: the interval of every handled same-date pair has duration
\* min(e, 60), e the elapsed minutes of the pair (zero and negative e pass
\* through); with non-decreasing timestamps every duration is in 0..60;
\* and [(T0,850),(T0+10m,950),(T0+70m,850)] yields 10 (sitting) and 60
\* (standing).
C1_DurationIsCappedElapsed ==
    LET pairs == PairSeq(Processed)
    IN  /\ Len(durations) = Len(pairs)
        /\ \A k \in 1..Len(pairs) :
              durations[k].duration_min =
                  IF Elapsed(pairs[k]) < 60 THEN Elapsed(pairs[k]) ELSE 60
        /\ NonDecreasing =>
              \A k \in 1..Len(durations) :
                  durations[k].duration_min >= 0 /\ durations[k].duration_min <= 60
        /\ (Derived /\ Readings = <<<<0, 850>>, <<10, 950>>, <<70, 850>>>>) =>
              /\ Len(durations) = 2
              /\ durations[1].duration_min = 10 /\ ~durations[1].is_standing
              /\ durations[2].duration_min = 60 /\ durations[2].is_standing

\* C1's case: derived data with a gap above the cap (its interval has 60)
\* and a negative gap (its interval keeps the negative value).
C1_Witness ==
    /\ Derived
    /\ \E k \in 1..Len(durations) :
          /\ durations[k].end - durations[k].start > 60
          /\ durations[k].duration_min = 60
    /\ \E k \in 1..Len(durations) :
          /\ durations[k].end - durations[k].start < 0
          /\ durations[k].duration_min = durations[k].end - durations[k].start

\* The scenario of C1 is reached: its gaps are 10 minutes and (from T0+10m
\* to T0+70m) exactly 60 minutes.
C1_ScenarioReached ==
    /\ Derived
    /\ Readings = <<<<0, 850>>, <<10, 950>>, <<70, 850>>>>
    /\ Len(durations) = 2
    /\ durations[1].end - durations[1].start = 10
    /\ durations[2].end - durations[2].start = 60

\* C2: every interval starts and ends on one calendar date, and the
\* intervals are as many as the handled pairs whose dates agree: a pair on
\* two dates, in either direction, adds none.
C2_NoIntervalSpansDates ==
    /\ \A k \in 1..Len(durations) :
          durations[k].start \div 1440 = durations[k].end \div 1440
    /\ Len(durations) = Cardinality({p \in 1..Processed : OnOneDate(p)})

\* C2's case: derived data with a pair that crosses dates forwards by
\* less than a day, one that crosses them backwards over two days, and a
\* same-date pair that did produce an interval.
C2_Witness ==
    /\ Derived
    /\ \E p \in 1..Processed : ~OnOneDate(p) /\ Elapsed(p) > 0 /\ Elapsed(p) < 1440
    /\ \E p \in 1..Processed : ~OnOneDate(p) /\ Elapsed(p) < -1440
    /\ Len(durations) = 1

C9_IntervalsAreSameDatePairs ==
    LET pairs == PairSeq(Processed)
    IN  /\ Len(durations) = Len(pairs)
        /\ \A k \in 1..Len(pairs) :
              /\ durations[k].start = data[pairs[k]].timestamp
              /\ durations[k].end = data[pairs[k] + 1].timestamp
              /\ durations[k].is_standing = data[pairs[k]].is_standing
              /\ durations[k].height = data[pairs[k]].height
        /\ Derived =>
              /\ Processed = (IF Len(data) = 0 THEN 0 ELSE Len(data) - 1)
              /\ Len(data) >= 1 => Len(durations) <= Len(data) - 1
              /\ Len(data) <= 1 => durations = <<>>
        /\ (pc = "calculate_durations" /\ Len(data) <= 1) => exc = <<>>

\* C9's case: derived data where a pair was skipped between two kept
\* pairs' worth of samples and the kept interval's two samples differ in
\* height and state.
C9_Witness ==
    /\ Derived
    /\ Len(data) = 4
    /\ Len(durations) = 2
    /\ ~OnOneDate(2)
    /\ data[3].is_standing # data[4].is_standing
    /\ data[3].height # data[4].height

\* The number of intervals aggregate_by_day has folded in so far.
Folded ==
    IF ~Derived THEN 0
    ELSE IF pc = "aggregate_by_day" THEN i
    ELSE Len(durations)

\* aggregate_by_day has returned.
Aggregated == Derived /\ pc # "aggregate_by_day"

\* The intervals folded in so far whose start is on date day, in order.
FoldedOn(day) ==
    SelectSeq(SubSeq(durations, 1, Folded), LAMBDA d : d.start \div 1440 = day)

\* The sum of the durations of the intervals of xs with is_standing = flag.
RECURSIVE SumWhere(_, _)
SumWhere(xs, flag) ==
    IF xs = <<>> THEN 0
    ELSE (IF Head(xs).is_standing = flag THEN Head(xs).duration_min ELSE 0)
             + SumWhere(Tail(xs), flag)

\* standing + sitting, summed over the days of S.
RECURSIVE MinutesOver(_)
MinutesOver(S) ==
    IF S = {} THEN 0
    ELSE LET day == CHOOSE x \in S : TRUE
         IN  daily[day].standing + daily[day].sitting + MinutesOver(S \ {day})

\* C4: the keys of the mapping are exactly the calendar dates of the starts
\* of the intervals folded in; once aggregate_by_day has returned, a date
\* of a sample is a key only if a same-date pair starts on it, and no
\* intervals give an empty mapping.
C4_KeysAreIntervalStartDates ==
    /\ DOMAIN daily = {durations[k].start \div 1440 : k \in 1..Folded}
    /\ Aggregated =>
          /\ \A s \in 1..Len(data) :
                data[s].timestamp \div 1440 \in DOMAIN daily
                    <=> \E p \in 1..(Len(data) - 1) :
                           /\ OnOneDate(p)
                           /\ data[p].timestamp \div 1440
                                 = data[s].timestamp \div 1440
          /\ durations = <<>> => DOMAIN daily = {}

\* C4's case: aggregate_by_day returned a mapping with a key, and a sample
\* is on a date that is no key.
C4_Witness ==
    /\ Aggregated
    /\ DOMAIN daily # {}
    /\ \E s \in 1..Len(data) : data[s].timestamp \div 1440 \notin DOMAIN daily
    /\ \E k \in 1..Len(durations) : durations[k].start \div 1440 # durations[k].start

\* C10: after any prefix of the intervals is folded in, each day's entries
\* are the folded intervals starting on it, in order, its standing and
\* sitting are the sums of the durations of its standing and of its
\* sitting entries, and the minutes of all days add up to the durations of
\* all folded intervals.
C10_DayTotalsMatchEntries ==
    /\ \A day \in DOMAIN daily :
          /\ daily[day].entries = FoldedOn(day)
          /\ daily[day].entries # <<>>
          /\ daily[day].standing = SumWhere(daily[day].entries, TRUE)
          /\ daily[day].sitting = SumWhere(daily[day].entries, FALSE)
    /\ MinutesOver(DOMAIN daily)
          = SumWhere(SubSeq(durations, 1, Folded), TRUE)
              + SumWhere(SubSeq(durations, 1, Folded), FALSE)

\* C10's case: a proper prefix is folded in, holding a standing and a
\* sitting interval of one day with minutes in both totals.
C10_Witness ==
    /\ pc = "aggregate_by_day"
    /\ i = 2
    /\ Len(durations) = 3
    /\ \E day \in DOMAIN daily :
          /\ daily[day].standing > 0
          /\ daily[day].sitting > 0
          /\ Len(daily[day].entries) = 2

\* Two days have intervals: the mapping has two keys.
TwoDaysAggregated == Aggregated /\ Cardinality(DOMAIN daily) = 2

\* The printed summary, complete.
Summary ==
    <<"Summary header", "Date range", "Total days", "Total standing",
      "Total sitting", "Standing percentage", "Sitting percentage",
      "Average per day", "Summary footer">>

\* The position of a stage in main.
StageRank(stage) ==
    CASE stage = "main" -> 0
      [] stage = "load_data" -> 1
      [] stage = "calculate_durations" -> 2
      [] stage = "aggregate_by_day" -> 3
      [] stage = "create_visualization" -> 4
      [] stage = "savefig" -> 5
      [] stage = "show" -> 6
      [] stage = "exited" -> 7

\* C5: when the aggregated data has no days, or a total time of zero, the
\* summary step ends the run in an EmptyDataset / NoStandingData condition
\* of its own, not in an arithmetic or empty-sequence fault.
C5_SummaryDetectsEmptyDataset ==
    (pc = "exited" /\ Aggregated /\ (DOMAIN daily = {} \/ total_time = 0)) =>
        /\ exc # <<>>
        /\ exc[1].type \in {"EmptyDataset", "NoStandingData"}

\* The two faults of the summary step are both reached: min() of no days,
\* and a division by a total time of zero with days present.
C5_EmptySequenceFault ==
    pc = "exited" /\ DOMAIN daily = {} /\ exc # <<>>
        /\ exc[1] = [type |-> "ValueError", line |-> 218]

C5_ZeroDivisionFault ==
    pc = "exited" /\ DOMAIN daily # {} /\ total_time = 0 /\ exc # <<>>
        /\ exc[1] = [type |-> "ZeroDivisionError", line |-> 226]

\* C6: a record with a missing or unparseable timestamp or height fails
\* the load with a MalformedRecordError that identifies the position of
\* the record, and no sample list reaches the later stages.
C6_LoadFailsWithPositionedError ==
    LoadFailed =>
        /\ exc[1].type = "MalformedRecordError"
        /\ "position" \in DOMAIN exc[1]
        /\ exc[1].position = Len(data) + 1
        /\ durations = <<>> /\ DOMAIN daily = {}

\* What the load does do on a bad record: the run ends there with status 1
\* and the exception of the parse, after any number of good records, and
\* no later stage has run.
LoadFailureAbortsRun ==
    LoadFailed =>
        /\ pc = "exited" /\ exit_code = <<1>>
        /\ exc[1].type \in {"ValueError", "TypeError"}
        /\ durations = <<>> /\ DOMAIN daily = {} /\ image_writes = 0
        /\ stdout = <<"Loading data">>

LoadFailedAfterGoodRecords == LoadFailed /\ Len(data) = 2

\* C7: when the path does not exist the run prints an error to stderr and
\* exits with status 1 before load_data is entered: nothing is loaded,
\* nothing is printed to stdout and no image is written.
C7_MissingFileExitsBeforeLoading ==
    ~path_exists =>
        /\ pc \in {"main", "exited"}
        /\ data = <<>> /\ durations = <<>> /\ DOMAIN daily = {}
        /\ stdout = <<>>
        /\ image_writes = 0
        /\ exc = <<>>
        /\ pc = "main" => stderr = <<>> /\ exit_code = <<>>
        /\ pc = "exited" =>
              stderr = <<"Error: File not found">> /\ exit_code = <<1>>

\* C7's case: the run on a missing file has ended.
C7_Witness == ~path_exists /\ pc = "exited" /\ stderr # <<>>

\* C8, the states: the image is written at most once and only after every
\* earlier stage completed without error; a run that failed has status 1
\* and no image; a run with status 0 has written the image once.
C8_State ==
    /\ image_writes \in {0, 1}
    /\ image_writes = 1 =>
          /\ pc \in {"show", "exited"}
          /\ path_exists /\ exc = <<>> /\ stderr = <<>>
          /\ Aggregated
          /\ stdout = <<"Loading data", "Loaded records">> \o Summary
                          \o <<"Visualization saved">>
    /\ pc = "exited" <=> exit_code # <<>>
    /\ (~path_exists \/ exc # <<>> \/ stderr # <<>>) /\ pc = "exited" =>
          exit_code = <<1>> /\ image_writes = 0
    /\ exit_code # <<>> => exit_code \in {<<0>>, <<1>>}
    /\ exit_code = <<0>> => image_writes = 1 /\ exc = <<>> /\ stderr = <<>>

\* C8, the steps: a step stays in its stage, moves to the next stage, or
\* ends the run; only the savefig stage writes the image; nothing happens
\* after the run has ended.
C8_Step ==
    /\ \/ pc' = pc
       \/ StageRank(pc') = StageRank(pc) + 1
       \/ pc' = "exited"
    /\ image_writes' # image_writes =>
          pc = "savefig" /\ pc' = "show" /\ image_writes' = image_writes + 1
    /\ pc = "exited" => UNCHANGED vars
    /\ (pc' = "exited" /\ pc # "exited") =>
          \/ pc = "show" /\ exit_code' = <<0>>
          \/ pc # "show" /\ exit_code' = <<1>>

====
